---- MODULE Spec2Model ----
(***************************************************************************)
(* Model of the request-management storage layer:                          *)
(*   src/server/storage/database.ts  (DatabaseStorage)                     *)
(*   src/server/storage.ts           (initializeStorage)                   *)
(*                                                                         *)
(* The relational store is the state: one table per entity, each a         *)
(* function from serial id to row.  Every DatabaseStorage method is an     *)
(* async function; each awaited query is one atomic step of the store, so  *)
(* a method with two queries (select, then insert/update) is two actions   *)
(* joined by the caller's program position pc[p] and its locals local[p].  *)
(***************************************************************************)
EXTENDS Integers, Sequences, FiniteSets, TLC

\* ------------------------------------------------------------------ bounds
MaxClock == 1
MaxRows == 1
MaxUsers == 2
MaxHidden == 1

\* Concurrent callers of the storage layer (HTTP requests being served).
Procs == {"c1", "c2"}

\* ------------------------------------------------------------ JS/SQL values
\* JavaScript null / SQL NULL, and JavaScript undefined (an absent property).
NULL == "<null>"
UNDEFINED == "<undefined>"
\* A timestamp column: NoDate is SQL NULL, Date(t) the Date taken at clock t.
NoDate == <<>>
Date(t) == <<t>>
\* An optional numeric id: NoId is undefined / NULL, Id(n) the number n.
NoId == <<>>
Id(n) == <<n>>
\* A "corrections" value: an array of strings, null or undefined.
CorrUndefined == [tag |-> "undefined"]
CorrNull == [tag |-> "null"]
CorrArray(items) == [tag |-> "array", items |-> items]

\* String(v) of a scalar field value.
String(v) == IF v = NULL THEN "null" ELSE IF v = UNDEFINED THEN "undefined" ELSE v

RECURSIVE JoinQuoted(_)
JoinQuoted(items) ==
  IF Len(items) = 0 THEN ""
  ELSE IF Len(items) = 1 THEN "\"" \o items[1] \o "\""
  ELSE "\"" \o items[1] \o "\"," \o JoinQuoted(Tail(items))

\* JSON.stringify(v) of a corrections value: undefined for undefined.
JSON_stringify(v) ==
  IF v.tag = "undefined" THEN UNDEFINED
  ELSE IF v.tag = "null" THEN "null"
  ELSE "[" \o JoinQuoted(v.items) \o "]"

\* !!v of an optional numeric id: undefined and 0 are falsy.
Truthy(o) == o # NoId /\ o[1] # 0

\* What the store keeps for a value given to insert: an absent (undefined)
\* property of a nullable column is stored as NULL.
ColumnValue(v) == IF v = UNDEFINED THEN NULL ELSE v
CorrColumnValue(v) == IF v.tag = "undefined" THEN CorrNull ELSE v
\* The column defaults of a request row that an insert does not name: nobody
\* has hidden the request, and it is not archived.
DefaultHiddenBy == <<>>
DefaultIsArchived == FALSE

\* ------------------------------------------------------------------- state
VARIABLES
  caseRequests,        \* table case_requests: id -> row
  nextCaseId,          \* its serial id sequence
  extensionRequests,   \* table extension_requests: id -> row
  nextExtId,           \* its serial id sequence
  users,               \* table users: id -> row
  nextUserId,          \* its serial id sequence
  clock,               \* what new Date() returns
  pc,                  \* per caller: "idle" or the query its call awaits next
  local,               \* per caller: the locals of its call in flight
  ret                  \* what the step just taken returned or threw, if it ended a call

vars == <<caseRequests, nextCaseId, extensionRequests, nextExtId,
          users, nextUserId, clock, pc, local, ret>>

requestVars == <<caseRequests, nextCaseId, extensionRequests, nextExtId>>
userVars == <<users, nextUserId>>

NoLocal == [op |-> "idle"]
\* value is what a read returned: a list of ids, <<row>>, or <<>> for undefined
\* and for the empty list.  storeFailed records that the store rejected the
\* query the step awaited.
NoRet ==
  [op |-> "none", id |-> 0, status |-> "", error |-> <<>>, value |-> <<>>,
   storeFailed |-> FALSE]
Returned(op, id, status) ==
  [op |-> op, id |-> id, status |-> status, error |-> <<>>, value |-> <<>>,
   storeFailed |-> FALSE]
ReturnedValue(op, id, value) ==
  [op |-> op, id |-> id, status |-> "", error |-> <<>>, value |-> value,
   storeFailed |-> FALSE]
Threw(op, id, status, error) ==
  [op |-> op, id |-> id, status |-> status, error |-> error, value |-> <<>>,
   storeFailed |-> FALSE]
\* The rejection of a query by the backing store.
StoreError == <<"store error">>
\* catch (error) { console.error(...); return undefined } (or: return [])
Swallowed(op, id) ==
  [op |-> op, id |-> id, status |-> "", error |-> <<>>, value |-> <<>>,
   storeFailed |-> TRUE]
\* The rejection reaches the caller.
Propagated(op, id, status) ==
  [op |-> op, id |-> id, status |-> status, error |-> StoreError, value |-> <<>>,
   storeFailed |-> TRUE]

Init ==
  /\ caseRequests = <<>>
  /\ nextCaseId = 1
  /\ extensionRequests = <<>>
  /\ nextExtId = 1
  /\ users = <<>>
  /\ nextUserId = 1
  /\ clock = 0
  /\ pc = [p \in Procs |-> "idle"]
  /\ local = [p \in Procs |-> NoLocal]
  /\ ret = NoRet

\* The call of p ends in this step with result r.
Finish(p, r) ==
  /\ pc' = [pc EXCEPT ![p] = "idle"]
  /\ local' = [local EXCEPT ![p] = NoLocal]
  /\ ret' = r

\* The call of p goes on to await query next with locals l.
Await(p, next, l) ==
  /\ pc' = [pc EXCEPT ![p] = next]
  /\ local' = [local EXCEPT ![p] = l]
  /\ ret' = NoRet

\* The store rejects the query that the call of p awaits: the store stays as
\* it is, and the rejection ends the call of a method that does not catch it
\* (or catches and rethrows it).
Rejected(p, op, id, status) ==
  /\ Finish(p, Propagated(op, id, status))
  /\ UNCHANGED <<requestVars, userVars, clock>>

\* --------------------------------------------------- status transition tables
\* Mutant: a completed request may be reopened.
CaseValidTransitions_reopen ==
  [submitted |-> {"pending", "rejected"},
   pending |-> {"complete", "rejected"},
   rejected |-> {},
   complete |-> {"pending"},
   resubmitted |-> {"pending", "rejected"}]

CaseValidTransitions ==
  [submitted |-> {"pending", "rejected"},
   pending |-> {"complete", "rejected"},
   rejected |-> {},
   complete |-> {},
   resubmitted |-> {"pending", "rejected"}]

\* Mutant: the case table copied, its resubmitted row kept.
ExtensionValidTransitions_withResubmitted ==
  [submitted |-> {"pending", "rejected"},
   pending |-> {"complete", "rejected"},
   rejected |-> {},
   complete |-> {},
   resubmitted |-> {"pending", "rejected"}]

ExtensionValidTransitions ==
  [submitted |-> {"pending", "rejected"},
   pending |-> {"complete", "rejected"},
   rejected |-> {},
   complete |-> {}]

\* Property names every object literal inherits from Object.prototype: the
\* table lookup validTransitions[currentStatus] finds these too, and what it
\* finds is not an array.
ObjectPrototypeKeys ==
  {"constructor", "toString", "valueOf", "hasOwnProperty", "isPrototypeOf",
   "propertyIsEnumerable", "toLocaleString", "__proto__"}

InvalidTransition(currentStatus, status) ==
  <<"Invalid status transition from", currentStatus, "to", status>>
NotAFunction == <<"TypeError: validTransitions[currentStatus]?.includes is not a function">>
NotFound(id) == <<"Request with ID", id, "not found">>

\* if (!validTransitions[currentStatus]?.includes(status)) throw ...
\* The error thrown, <<>> when the transition passes.
CheckTransition(validTransitions, currentStatus, status) ==
  IF currentStatus \in DOMAIN validTransitions
  THEN IF status \in validTransitions[currentStatus]
       THEN <<>>
       ELSE InvalidTransition(currentStatus, status)
  ELSE IF currentStatus \in ObjectPrototypeKeys
       THEN NotAFunction
       ELSE InvalidTransition(currentStatus, status)

\* .set({status, adminFeedback: feedback, updatedAt: new Date(),
\*       completedAt: status === 'complete' ? new Date() : undefined,
\*       receivedAt: status === 'pending' ? new Date() : undefined})
\* The query builder leaves out the keys whose value is undefined.
\* Mutant: an undefined key is written as NULL instead of being left out.
UpdateSet_undefinedAsNull(row, status, feedback, now) ==
  [row EXCEPT
     !.status = status,
     !.adminFeedback = IF feedback = UNDEFINED THEN NULL ELSE feedback,
     !.updatedAt = Date(now),
     !.completedAt = IF status = "complete" THEN Date(now) ELSE NoDate,
     !.receivedAt = IF status = "pending" THEN Date(now) ELSE NoDate]

UpdateSet(row, status, feedback, now) ==
  [row EXCEPT
     !.status = status,
     !.adminFeedback = IF feedback = UNDEFINED THEN @ ELSE feedback,
     !.updatedAt = Date(now),
     !.completedAt = IF status = "complete" THEN Date(now) ELSE @,
     !.receivedAt = IF status = "pending" THEN Date(now) ELSE @]

\* ------------------------------------------------------- hide and archive
RequestNotFound == <<"Request not found">>

\* const hiddenBy = [...(request.hiddenBy || []), userId];
AppendHiddenBy(hiddenBy, userId) == Append(hiddenBy, userId)

\* .set({ hiddenBy })
\* Mutant: the hide also archives the request.
HideSet_archives(row, hiddenBy) == [row EXCEPT !.hiddenBy = hiddenBy, !.isArchived = TRUE]

HideSet(row, hiddenBy) == [row EXCEPT !.hiddenBy = hiddenBy]

\* .set({ isArchived: true })
\* Mutant: archive toggles the flag.
ArchiveSet_toggle(row) == [row EXCEPT !.isArchived = ~@]

ArchiveSet(row) == [row EXCEPT !.isArchived = TRUE]

\* ------------------------------------------------------------------ reads
\* sql`NOT ${hiddenBy}::jsonb @> ${JSON.stringify([userId])}::jsonb`
Contains(hiddenBy, userId) == \E i \in 1..Len(hiddenBy) : hiddenBy[i] = userId

\* db.select().from(t).where(w1).where(w2).where(w3): the query builder holds
\* one where clause, which every call to .where() sets anew, so the query runs
\* with the condition of the last call.
ChainedWhere(w1, w2, w3) == w3

\* The where clause of getCaseRequestsByUser / getExtensionRequestsByUser.
ByUserWhere(row, userId) ==
  ChainedWhere(row.userId = userId,
               ~Contains(row.hiddenBy, userId),
               row.isArchived = FALSE)

\* The where clause of getAllCaseRequests / getAllExtensionRequests.
AllWhere(row) == row.isArchived = FALSE

\* The rows of a select, by id, in the orders the store may return them.
InAnyOrder(ids) ==
  {s \in [1..Cardinality(ids) -> ids] :
     \A i, j \in 1..Cardinality(ids) : i # j => s[i] # s[j]}

\* .orderBy(desc(createdAt)): the lists of the ids, newest first; rows created
\* at the same time come in either order.
NewestFirst(rows, ids) ==
  {s \in InAnyOrder(ids) :
     \A i, j \in 1..Cardinality(ids) :
       i < j => rows[s[i]].createdAt[1] >= rows[s[j]].createdAt[1]}

\* The ids of the rows that the queries select.
CaseRequestsByUser(userId) ==
  {id \in DOMAIN caseRequests : ByUserWhere(caseRequests[id], userId)}
AllCaseRequests == {id \in DOMAIN caseRequests : AllWhere(caseRequests[id])}
ExtensionRequestsByUser(userId) ==
  {id \in DOMAIN extensionRequests : ByUserWhere(extensionRequests[id], userId)}
AllExtensionRequests == {id \in DOMAIN extensionRequests : AllWhere(extensionRequests[id])}

\* ------------------------------------------------------------ change diff
fieldsToCompare ==
  <<"sadNumber", "sadDate", "declarantCompany", "declarantName",
    "documentHolder", "documentHolderPhone", "reason">>

\* changes = fieldsToCompare.filter(...).map(...), then the corrections entry.
ComputeChanges(original, request) ==
  LET differing == SelectSeq(fieldsToCompare, LAMBDA f : original[f] # request[f])
      scalar == [i \in 1..Len(differing) |->
                   [field |-> differing[i],
                    from |-> String(original[differing[i]]),
                    to |-> String(request[differing[i]])]]
  IN IF JSON_stringify(original.corrections) # JSON_stringify(request.corrections)
     THEN Append(scalar, [field |-> "corrections",
                          from |-> JSON_stringify(original.corrections),
                          to |-> JSON_stringify(request.corrections)])
     ELSE scalar

\* The row inserted by createCaseRequest.
CaseRow(request, changes, now) ==
  [userId |-> request.userId,
   sadNumber |-> ColumnValue(request.sadNumber),
   sadDate |-> ColumnValue(request.sadDate),
   declarantCompany |-> ColumnValue(request.declarantCompany),
   declarantName |-> ColumnValue(request.declarantName),
   documentHolder |-> ColumnValue(request.documentHolder),
   documentHolderPhone |-> ColumnValue(request.documentHolderPhone),
   reason |-> ColumnValue(request.reason),
   corrections |-> CorrColumnValue(request.corrections),
   type |-> "case",
   isResubmission |-> Truthy(request.originalRequestId),
   originalRequestId |-> request.originalRequestId,
   changes |-> IF Len(changes) > 0 THEN changes ELSE NULL,
   status |-> IF Truthy(request.originalRequestId) THEN "resubmitted" ELSE "submitted",
   hiddenBy |-> DefaultHiddenBy,
   isArchived |-> DefaultIsArchived,
   adminFeedback |-> NULL,
   createdAt |-> Date(now),
   updatedAt |-> Date(now),
   receivedAt |-> NoDate,
   completedAt |-> NoDate]

\* The row inserted by createExtensionRequest.
ExtensionRow(request, now) ==
  [userId |-> request.userId,
   status |-> request.status,
   hiddenBy |-> DefaultHiddenBy,
   isArchived |-> DefaultIsArchived,
   adminFeedback |-> NULL,
   createdAt |-> Date(now),
   updatedAt |-> Date(now),
   receivedAt |-> NoDate,
   completedAt |-> NoDate]

\* Rows inserted so far plus the inserts that calls in flight still await.
RequestsCreated ==
  (nextCaseId - 1) + (nextExtId - 1)
    + Cardinality({p \in Procs : pc[p] = "createCaseRequest_insert"})
UsersCreated ==
  (nextUserId - 1) + Cardinality({p \in Procs : pc[p] = "createUser_insert"})

\* ----------------------------------------------------- case request actions
\* createCaseRequest up to its first await: the select of the original when
\* originalRequestId is truthy, else the insert itself.
createCaseRequest(p, request, ok) ==
  /\ pc[p] = "idle"
  /\ IF ok
     THEN /\ UNCHANGED <<extensionRequests, nextExtId, users, nextUserId, clock>>
          /\ IF Truthy(request.originalRequestId)
             THEN LET oid == request.originalRequestId[1]
                      changes == IF oid \in DOMAIN caseRequests
                                 THEN ComputeChanges(caseRequests[oid], request)
                                 ELSE <<>>
                  IN /\ Await(p, "createCaseRequest_insert",
                              [op |-> "createCaseRequest", request |-> request,
                               changes |-> changes, now |-> clock])
                     /\ UNCHANGED <<caseRequests, nextCaseId>>
             ELSE /\ caseRequests' = caseRequests @@ (nextCaseId :> CaseRow(request, <<>>, clock))
                  /\ nextCaseId' = nextCaseId + 1
                  /\ Finish(p, Returned("createCaseRequest", nextCaseId, ""))
     ELSE Rejected(p, "createCaseRequest", 0, "")

createCaseRequest_insert(p, ok) ==
  /\ pc[p] = "createCaseRequest_insert"
  /\ IF ok
     THEN /\ caseRequests' = caseRequests @@
               (nextCaseId :> CaseRow(local[p].request, local[p].changes, local[p].now))
          /\ nextCaseId' = nextCaseId + 1
          /\ Finish(p, Returned("createCaseRequest", nextCaseId, ""))
          /\ UNCHANGED <<extensionRequests, nextExtId, users, nextUserId, clock>>
     ELSE Rejected(p, "createCaseRequest", 0, "")

\* updateCaseRequest up to its update query: select, not-found check, validation.
updateCaseRequest(p, id, status, feedback, ok) ==
  /\ pc[p] = "idle"
  /\ IF ok
     THEN /\ UNCHANGED <<requestVars, userVars, clock>>
          /\ IF id \notin DOMAIN caseRequests
             THEN Finish(p, Threw("updateCaseRequest", id, status, NotFound(id)))
             ELSE LET error == CheckTransition(CaseValidTransitions, caseRequests[id].status, status)
                  IN IF error # <<>>
                     THEN Finish(p, Threw("updateCaseRequest", id, status, error))
                     ELSE Await(p, "updateCaseRequest_update",
                                [op |-> "updateCaseRequest", id |-> id, status |-> status,
                                 feedback |-> feedback, now |-> clock])
     ELSE Rejected(p, "updateCaseRequest", id, status)

updateCaseRequest_update(p, ok) ==
  /\ pc[p] = "updateCaseRequest_update"
  /\ IF ok
     THEN /\ UNCHANGED <<nextCaseId, extensionRequests, nextExtId, userVars, clock>>
          /\ LET l == local[p]
             IN IF l.id \in DOMAIN caseRequests
                THEN /\ caseRequests' = [caseRequests EXCEPT
                                           ![l.id] = UpdateSet(@, l.status, l.feedback, l.now)]
                     /\ Finish(p, Returned("updateCaseRequest", l.id, l.status))
                ELSE /\ UNCHANGED caseRequests
                     /\ Finish(p, Threw("updateCaseRequest", l.id, l.status,
                                        <<"Failed to update case request">>))
     ELSE Rejected(p, "updateCaseRequest", local[p].id, local[p].status)

\* The delete matches no row when the id is not stored; the call returns all the same.
deleteCaseRequest(p, id, ok) ==
  /\ pc[p] = "idle"
  /\ IF ok
     THEN /\ caseRequests' = [i \in DOMAIN caseRequests \ {id} |-> caseRequests[i]]
          /\ Finish(p, Returned("deleteCaseRequest", id, ""))
          /\ UNCHANGED <<nextCaseId, extensionRequests, nextExtId, userVars, clock>>
     ELSE Rejected(p, "deleteCaseRequest", id, "")

\* hideUserCaseRequest up to its update query: select, not-found check, and
\* the new list computed from the list just read.
hideUserCaseRequest(p, id, userId, ok) ==
  /\ pc[p] = "idle"
  /\ IF ok
     THEN /\ id \in DOMAIN caseRequests => Len(caseRequests[id].hiddenBy) < MaxHidden
          /\ UNCHANGED <<requestVars, userVars, clock>>
          /\ IF id \notin DOMAIN caseRequests
             THEN Finish(p, Threw("hideUserCaseRequest", id, "", RequestNotFound))
             ELSE Await(p, "hideUserCaseRequest_update",
                        [op |-> "hideUserCaseRequest", id |-> id, userId |-> userId,
                         hiddenBy |-> AppendHiddenBy(caseRequests[id].hiddenBy, userId)])
     ELSE Rejected(p, "hideUserCaseRequest", id, "")

\* The update matches no row once the request is deleted; the call returns all the same.
hideUserCaseRequest_update(p, ok) ==
  /\ pc[p] = "hideUserCaseRequest_update"
  /\ IF ok
     THEN /\ caseRequests' = [i \in DOMAIN caseRequests |->
                                IF i = local[p].id THEN HideSet(caseRequests[i], local[p].hiddenBy)
                                ELSE caseRequests[i]]
          /\ Finish(p, Returned("hideUserCaseRequest", local[p].id, ""))
          /\ UNCHANGED <<nextCaseId, extensionRequests, nextExtId, userVars, clock>>
     ELSE Rejected(p, "hideUserCaseRequest", local[p].id, "")

\* The update matches no row when the id is not stored; the call returns all the same.
archiveCaseRequest(p, id, ok) ==
  /\ pc[p] = "idle"
  /\ IF ok
     THEN /\ caseRequests' = [i \in DOMAIN caseRequests |->
                                IF i = id THEN ArchiveSet(caseRequests[i]) ELSE caseRequests[i]]
          /\ Finish(p, Returned("archiveCaseRequest", id, ""))
          /\ UNCHANGED <<nextCaseId, extensionRequests, nextExtId, userVars, clock>>
     ELSE Rejected(p, "archiveCaseRequest", id, "")

\* ok: the store answers the query; otherwise it rejects it.
\* A lookup returns <<row>>, or <<>> for undefined.
\* try { return request } catch { return undefined }
getCaseRequest(p, id, ok) ==
  /\ pc[p] = "idle"
  /\ UNCHANGED <<requestVars, userVars, clock>>
  /\ IF ok
     THEN Finish(p, ReturnedValue("getCaseRequest", id,
                                  IF id \in DOMAIN caseRequests
                                  THEN <<caseRequests[id]>> ELSE <<>>))
     ELSE Finish(p, Swallowed("getCaseRequest", id))

\* try { return requests } catch { return [] }
getCaseRequestsByUser(p, userId, ok) ==
  /\ pc[p] = "idle"
  /\ UNCHANGED <<requestVars, userVars, clock>>
  /\ IF ok
     THEN \E requests \in NewestFirst(caseRequests, CaseRequestsByUser(userId)) :
            Finish(p, ReturnedValue("getCaseRequestsByUser", userId, requests))
     ELSE Finish(p, Swallowed("getCaseRequestsByUser", userId))

\* return db.select()...: no try/catch.
getAllCaseRequests(p, ok) ==
  /\ pc[p] = "idle"
  /\ UNCHANGED <<requestVars, userVars, clock>>
  /\ IF ok
     THEN \E requests \in NewestFirst(caseRequests, AllCaseRequests) :
            Finish(p, ReturnedValue("getAllCaseRequests", 0, requests))
     ELSE Finish(p, Propagated("getAllCaseRequests", 0, ""))

\* ------------------------------------------------ extension request actions
createExtensionRequest(p, request, ok) ==
  /\ pc[p] = "idle"
  /\ IF ok
     THEN /\ extensionRequests' = extensionRequests @@ (nextExtId :> ExtensionRow(request, clock))
          /\ nextExtId' = nextExtId + 1
          /\ Finish(p, Returned("createExtensionRequest", nextExtId, request.status))
          /\ UNCHANGED <<caseRequests, nextCaseId, userVars, clock>>
     ELSE Rejected(p, "createExtensionRequest", 0, "")

updateExtensionRequest(p, id, status, feedback, ok) ==
  /\ pc[p] = "idle"
  /\ IF ok
     THEN /\ UNCHANGED <<requestVars, userVars, clock>>
          /\ IF id \notin DOMAIN extensionRequests
             THEN Finish(p, Threw("updateExtensionRequest", id, status, NotFound(id)))
             ELSE LET error == CheckTransition(ExtensionValidTransitions,
                                               extensionRequests[id].status, status)
                  IN IF error # <<>>
                     THEN Finish(p, Threw("updateExtensionRequest", id, status, error))
                     ELSE Await(p, "updateExtensionRequest_update",
                                [op |-> "updateExtensionRequest", id |-> id, status |-> status,
                                 feedback |-> feedback, now |-> clock])
     ELSE Rejected(p, "updateExtensionRequest", id, status)

updateExtensionRequest_update(p, ok) ==
  /\ pc[p] = "updateExtensionRequest_update"
  /\ IF ok
     THEN /\ UNCHANGED <<caseRequests, nextCaseId, nextExtId, userVars, clock>>
          /\ LET l == local[p]
             IN IF l.id \in DOMAIN extensionRequests
                THEN /\ extensionRequests' = [extensionRequests EXCEPT
                                                ![l.id] = UpdateSet(@, l.status, l.feedback, l.now)]
                     /\ Finish(p, Returned("updateExtensionRequest", l.id, l.status))
                ELSE /\ UNCHANGED extensionRequests
                     /\ Finish(p, Threw("updateExtensionRequest", l.id, l.status,
                                        <<"Failed to update extension request">>))
     ELSE Rejected(p, "updateExtensionRequest", local[p].id, local[p].status)

deleteExtensionRequest(p, id, ok) ==
  /\ pc[p] = "idle"
  /\ IF ok
     THEN /\ extensionRequests' = [i \in DOMAIN extensionRequests \ {id} |-> extensionRequests[i]]
          /\ Finish(p, Returned("deleteExtensionRequest", id, ""))
          /\ UNCHANGED <<caseRequests, nextCaseId, nextExtId, userVars, clock>>
     ELSE Rejected(p, "deleteExtensionRequest", id, "")

hideUserExtensionRequest(p, id, userId, ok) ==
  /\ pc[p] = "idle"
  /\ IF ok
     THEN /\ id \in DOMAIN extensionRequests => Len(extensionRequests[id].hiddenBy) < MaxHidden
          /\ UNCHANGED <<requestVars, userVars, clock>>
          /\ IF id \notin DOMAIN extensionRequests
             THEN Finish(p, Threw("hideUserExtensionRequest", id, "", RequestNotFound))
             ELSE Await(p, "hideUserExtensionRequest_update",
                        [op |-> "hideUserExtensionRequest", id |-> id, userId |-> userId,
                         hiddenBy |-> AppendHiddenBy(extensionRequests[id].hiddenBy, userId)])
     ELSE Rejected(p, "hideUserExtensionRequest", id, "")

hideUserExtensionRequest_update(p, ok) ==
  /\ pc[p] = "hideUserExtensionRequest_update"
  /\ IF ok
     THEN /\ extensionRequests' = [i \in DOMAIN extensionRequests |->
                                     IF i = local[p].id
                                     THEN HideSet(extensionRequests[i], local[p].hiddenBy)
                                     ELSE extensionRequests[i]]
          /\ Finish(p, Returned("hideUserExtensionRequest", local[p].id, ""))
          /\ UNCHANGED <<caseRequests, nextCaseId, nextExtId, userVars, clock>>
     ELSE Rejected(p, "hideUserExtensionRequest", local[p].id, "")

archiveExtensionRequest(p, id, ok) ==
  /\ pc[p] = "idle"
  /\ IF ok
     THEN /\ extensionRequests' = [i \in DOMAIN extensionRequests |->
                                     IF i = id THEN ArchiveSet(extensionRequests[i])
                                     ELSE extensionRequests[i]]
          /\ Finish(p, Returned("archiveExtensionRequest", id, ""))
          /\ UNCHANGED <<caseRequests, nextCaseId, nextExtId, userVars, clock>>
     ELSE Rejected(p, "archiveExtensionRequest", id, "")

getExtensionRequest(p, id, ok) ==
  /\ pc[p] = "idle"
  /\ UNCHANGED <<requestVars, userVars, clock>>
  /\ IF ok
     THEN Finish(p, ReturnedValue("getExtensionRequest", id,
                                  IF id \in DOMAIN extensionRequests
                                  THEN <<extensionRequests[id]>> ELSE <<>>))
     ELSE Finish(p, Swallowed("getExtensionRequest", id))

\* return db.select()...: no try/catch.
getExtensionRequestsByUser(p, userId, ok) ==
  /\ pc[p] = "idle"
  /\ UNCHANGED <<requestVars, userVars, clock>>
  /\ IF ok
     THEN \E requests \in NewestFirst(extensionRequests, ExtensionRequestsByUser(userId)) :
            Finish(p, ReturnedValue("getExtensionRequestsByUser", userId, requests))
     ELSE Finish(p, Propagated("getExtensionRequestsByUser", userId, ""))

getAllExtensionRequests(p, ok) ==
  /\ pc[p] = "idle"
  /\ UNCHANGED <<requestVars, userVars, clock>>
  /\ IF ok
     THEN \E requests \in NewestFirst(extensionRequests, AllExtensionRequests) :
            Finish(p, ReturnedValue("getAllExtensionRequests", 0, requests))
     ELSE Finish(p, Propagated("getAllExtensionRequests", 0, ""))

\* ------------------------------------------------------------ user actions
\* createUser up to its insert: the select of all users and the first-user test.
\* try { return user } catch { return undefined }
getUser(p, id, ok) ==
  /\ pc[p] = "idle"
  /\ UNCHANGED <<requestVars, userVars, clock>>
  /\ IF ok
     THEN Finish(p, ReturnedValue("getUser", id,
                                  IF id \in DOMAIN users THEN <<users[id]>> ELSE <<>>))
     ELSE Finish(p, Swallowed("getUser", id))

\* const [user] = await db.select()...where(eq(users.username, username)):
\* the first of the rows that match, undefined when none does.
getUserByUsername(p, username, ok) ==
  /\ pc[p] = "idle"
  /\ UNCHANGED <<requestVars, userVars, clock>>
  /\ LET found == {id \in DOMAIN users : users[id].username = username}
     IN IF ~ok THEN Finish(p, Swallowed("getUserByUsername", 0))
        ELSE IF found = {} THEN Finish(p, ReturnedValue("getUserByUsername", 0, <<>>))
        ELSE \E id \in found : Finish(p, ReturnedValue("getUserByUsername", 0, <<users[id]>>))

getUserByEmail(p, email, ok) ==
  /\ pc[p] = "idle"
  /\ UNCHANGED <<requestVars, userVars, clock>>
  /\ LET found == {id \in DOMAIN users : users[id].email = email}
     IN IF ~ok THEN Finish(p, Swallowed("getUserByEmail", 0))
        ELSE IF found = {} THEN Finish(p, ReturnedValue("getUserByEmail", 0, <<>>))
        ELSE \E id \in found : Finish(p, ReturnedValue("getUserByEmail", 0, <<users[id]>>))

\* return db.select().from(users).where(eq(users.isApproved, false)): no
\* try/catch, no order.
getPendingUsers(p, ok) ==
  /\ pc[p] = "idle"
  /\ UNCHANGED <<requestVars, userVars, clock>>
  /\ IF ok
     THEN \E list \in InAnyOrder({id \in DOMAIN users : users[id].isApproved = FALSE}) :
            Finish(p, ReturnedValue("getPendingUsers", 0, list))
     ELSE Finish(p, Propagated("getPendingUsers", 0, ""))

\* ...where(eq(users.isApproved, true)).orderBy(desc(users.registrationDate))
getApprovedUsers(p, ok) ==
  /\ pc[p] = "idle"
  /\ UNCHANGED <<requestVars, userVars, clock>>
  /\ IF ok
     THEN \E list \in InAnyOrder({id \in DOMAIN users : users[id].isApproved = TRUE}) :
            /\ \A i, j \in 1..Len(list) :
                 i < j => users[list[i]].registrationDate[1] >= users[list[j]].registrationDate[1]
            /\ Finish(p, ReturnedValue("getApprovedUsers", 0, list))
     ELSE Finish(p, Propagated("getApprovedUsers", 0, ""))

\* Mutant: the test is off by one, so the second registrant passes it too.
isFirstUser_atMostOne(existingUsers) == Cardinality(DOMAIN existingUsers) <= 1

\* const isFirstUser = existingUsers.length === 0;
isFirstUser(existingUsers) == Cardinality(DOMAIN existingUsers) = 0

createUser(p, insertUser, ok) ==
  /\ pc[p] = "idle"
  /\ IF ok
     THEN /\ UsersCreated < MaxUsers
          /\ Await(p, "createUser_insert",
                   [op |-> "createUser", insertUser |-> insertUser,
                    isFirstUser |-> isFirstUser(users), now |-> clock])
          /\ UNCHANGED <<requestVars, userVars, clock>>
     ELSE Rejected(p, "createUser", 0, "")

createUser_insert(p, ok) ==
  /\ pc[p] = "createUser_insert"
  /\ IF ok
     THEN /\ users' = users @@
               (nextUserId :> [username |-> local[p].insertUser.username,
                               email |-> local[p].insertUser.email,
                               isAdmin |-> local[p].isFirstUser,
                               isApproved |-> local[p].isFirstUser,
                               approvalFeedback |-> NULL,
                               registrationDate |-> Date(local[p].now)])
          /\ nextUserId' = nextUserId + 1
          /\ Finish(p, Returned("createUser", nextUserId, ""))
          /\ UNCHANGED <<requestVars, clock>>
     ELSE Rejected(p, "createUser", 0, "")

\* update(users).set({isApproved: true}).where(id).returning(): no row matches
\* a missing id, and the call returns undefined.
approveUser(p, id, ok) ==
  /\ pc[p] = "idle"
  /\ IF ok
     THEN /\ users' = [i \in DOMAIN users |->
                         IF i = id THEN [users[i] EXCEPT !.isApproved = TRUE] ELSE users[i]]
          /\ Finish(p, Returned("approveUser", id, ""))
          /\ UNCHANGED <<requestVars, nextUserId, clock>>
     ELSE Rejected(p, "approveUser", id, "")

rejectUser(p, id, feedback, ok) ==
  /\ pc[p] = "idle"
  /\ IF ok
     THEN /\ users' = [i \in DOMAIN users |->
                         IF i = id
                         THEN [users[i] EXCEPT !.approvalFeedback = feedback, !.isApproved = FALSE]
                         ELSE users[i]]
          /\ Finish(p, Returned("rejectUser", id, ""))
          /\ UNCHANGED <<requestVars, nextUserId, clock>>
     ELSE Rejected(p, "rejectUser", id, "")

removeUser(p, id, ok) ==
  /\ pc[p] = "idle"
  /\ IF ok
     THEN /\ id \in DOMAIN users
          /\ users' = [i \in DOMAIN users \ {id} |-> users[i]]
          /\ Finish(p, Returned("removeUser", id, ""))
          /\ UNCHANGED <<requestVars, nextUserId, clock>>
     ELSE Rejected(p, "removeUser", id, "")

\* ------------------------------------------- storage backend initialization
\* src/server/storage.ts.  env is process.env as read at startup.
CredentialsNotSet ==
  <<"GOOGLE_APPLICATION_CREDENTIALS_JSON environment variable is not set">>
WriteFailed == <<"EACCES: permission denied, open 'google-credentials.json'">>

\* !credentialsJson: undefined and the empty string are falsy.
Falsy(v) == v = UNDEFINED \/ v = ""

\* Buffer.from(credentialsJson, 'base64').toString('utf-8'), for the blobs of
\* CredentialBlobs: characters outside the base64 alphabet are skipped, and
\* nothing is thrown.
Base64Decode(blob) ==
  IF blob = "e30=" THEN "{}"
  ELSE IF blob = "bm90IGpzb24=" THEN "not json"
  ELSE ""

\* new GoogleCloudStorage(): the cloud implementation, which falls back to
\* local storage by itself when its client cannot be constructed.
GoogleCloudStorage(clientConstructs) == IF clientConstructs THEN "cloud" ELSE "local"

\* initializeStorage up to its first call: the local-only test.
initializeStorage(p, env) ==
  /\ pc[p] = "idle"
  /\ UNCHANGED <<requestVars, userVars, clock>>
  /\ IF env.USE_LOCAL_STORAGE = "true"
     THEN Await(p, "initializeStorage_construct",
                [op |-> "initializeStorage", env |-> env, credentials |-> "not attempted"])
     ELSE Await(p, "setupGoogleCloudCredentials",
                [op |-> "initializeStorage", env |-> env, credentials |-> "not attempted"])

\* The catch of initializeStorage around setupGoogleCloudCredentials().
initializeStorage_catch(p, error) ==
  IF local[p].env.FALLBACK_TO_LOCAL = "true"
  THEN Await(p, "initializeStorage_construct", [local[p] EXCEPT !.credentials = "failed"])
  ELSE Finish(p, Threw("initializeStorage", 0, "", error))

\* setupGoogleCloudCredentials, called by initializeStorage; written: whether
\* fs.writeFileSync succeeds.
setupGoogleCloudCredentials(p, written) ==
  /\ pc[p] = "setupGoogleCloudCredentials"
  /\ UNCHANGED <<requestVars, userVars, clock>>
  /\ LET credentialsJson == local[p].env.GOOGLE_APPLICATION_CREDENTIALS_JSON
     IN IF Falsy(credentialsJson) THEN initializeStorage_catch(p, CredentialsNotSet)
        ELSE IF ~written THEN initializeStorage_catch(p, WriteFailed)
        ELSE Await(p, "initializeStorage_construct",
                   [local[p] EXCEPT
                      !.credentials = "materialized",
                      !.env = [@ EXCEPT
                                 !.GOOGLE_APPLICATION_CREDENTIALS = "google-credentials.json",
                                 !.GOOGLE_CLOUD_CREDENTIALS = Base64Decode(credentialsJson)]])

\* return new GoogleCloudStorage(); clientConstructs: whether the cloud client
\* of the new instance can be constructed.
initializeStorage_construct(p, clientConstructs) ==
  /\ pc[p] = "initializeStorage_construct"
  /\ UNCHANGED <<requestVars, userVars, clock>>
  /\ Finish(p, ReturnedValue("initializeStorage", 0,
                             <<GoogleCloudStorage(clientConstructs)>>))

\* ------------------------------------------------------------------ clock
\* Time passes between two readings of new Date().
Tick ==
  /\ clock < MaxClock
  /\ clock' = clock + 1
  /\ ret' = NoRet
  /\ UNCHANGED <<requestVars, userVars, pc, local>>

\* ------------------------------------------------------------------ inputs
UserIds == {1, 2}
\* Ids that calls name: the rows a run may insert, so also ids not (yet, or no longer) stored.
RequestIds == 1..MaxRows
RequestedStatuses == {"submitted", "resubmitted", "pending", "rejected", "complete"}
\* status as callers of createExtensionRequest may pass it (any string).
SuppliedStatuses == {"submitted", "resubmitted", "constructor"}
Usernames == {"alice", "bob"}
InsertUserInput(u) == [username |-> u, email |-> u \o "@example.org"]

BasePayload ==
  [sadNumber |-> "x", sadDate |-> "x", declarantCompany |-> "x", declarantName |-> "x",
   documentHolder |-> "x", documentHolderPhone |-> "x", reason |-> "x",
   corrections |-> CorrArray(<<"a", "b">>)]

CaseRequestInput(payload, userId, originalRequestId) ==
  [sadNumber |-> payload.sadNumber, sadDate |-> payload.sadDate,
   declarantCompany |-> payload.declarantCompany, declarantName |-> payload.declarantName,
   documentHolder |-> payload.documentHolder,
   documentHolderPhone |-> payload.documentHolderPhone, reason |-> payload.reason,
   corrections |-> payload.corrections,
   userId |-> userId, originalRequestId |-> originalRequestId]

\* process.env at startup: the two flags unset, "true" or another string, the
\* credential blob unset, empty, or base64 of JSON or of other text, and the
\* variables that setupGoogleCloudCredentials writes, unset or already set.
FlagValues == {UNDEFINED, "true", "false"}
CredentialBlobs == {UNDEFINED, "", "e30=", "bm90IGpzb24="}
Environments ==
  [USE_LOCAL_STORAGE : FlagValues,
   FALLBACK_TO_LOCAL : FlagValues,
   GOOGLE_APPLICATION_CREDENTIALS_JSON : CredentialBlobs,
   GOOGLE_APPLICATION_CREDENTIALS : {UNDEFINED, "/etc/gcp/key.json"},
   GOOGLE_CLOUD_CREDENTIALS : {UNDEFINED}]

\* Inputs of the status-lifecycle specifications: one payload, one owner, an
\* originalRequestId that is absent or names id 1.
LifecycleRequests == {CaseRequestInput(BasePayload, 1, o) : o \in {NoId, Id(1)}}
LifecycleFeedbacks == {"fb"}
\* Statuses requested in the failure specification: an allowed and a denied one.
FailureStatuses == {"pending", "complete"}

\* Payloads of the resubmission specification: the base payload, and the base
\* payload with one tracked field changed or left out.
DiffPayloads ==
  {BasePayload}
    \cup {[BasePayload EXCEPT ![fieldsToCompare[i]] = v] :
            i \in 1..Len(fieldsToCompare), v \in {"y", UNDEFINED}}
    \cup {[BasePayload EXCEPT !.corrections = c] :
            c \in {CorrArray(<<"b", "a">>), CorrArray(<<"a">>), CorrUndefined}}
\* originalRequestId as callers may pass it: absent, 0, or an id.
OriginalIds == {NoId} \cup {Id(n) : n \in 0..(MaxRows + 1)}
DiffRequests == {CaseRequestInput(pl, 1, o) : pl \in DiffPayloads, o \in OriginalIds}


\* ------------------------------------------------------------ specifications
\* Calls run one at a time: while a call is in flight, the next step is its own.
Sequential == \A q \in Procs : pc[q] # "idle" => pc'[q] # pc[q]

\* At most MaxRows rows are ever inserted into the request tables.
RowsBounded == RequestsCreated' <= MaxRows

\* Step A of a run of sequentially executed calls.
OneAtATime(A) == A /\ Sequential /\ RowsBounded

\* Step A of a run of interleaved calls.
Interleaved(A) == A /\ RowsBounded

Next ==
  \/ \E r \in LifecycleRequests : OneAtATime(createCaseRequest("c1", r, TRUE))
  \/ OneAtATime(createCaseRequest_insert("c1", TRUE))
  \/ \E id \in RequestIds, s \in RequestedStatuses, f \in LifecycleFeedbacks :
       OneAtATime(updateCaseRequest("c1", id, s, f, TRUE))
  \/ OneAtATime(updateCaseRequest_update("c1", TRUE))
  \/ \E id \in RequestIds : OneAtATime(deleteCaseRequest("c1", id, TRUE))
  \/ \E s \in SuppliedStatuses :
       OneAtATime(createExtensionRequest("c1", [userId |-> 1, status |-> s], TRUE))
  \/ \E id \in RequestIds, s \in RequestedStatuses, f \in LifecycleFeedbacks :
       OneAtATime(updateExtensionRequest("c1", id, s, f, TRUE))
  \/ OneAtATime(updateExtensionRequest_update("c1", TRUE))
  \/ \E id \in RequestIds : OneAtATime(deleteExtensionRequest("c1", id, TRUE))
  \/ OneAtATime(Tick)

\* Sequentially executed calls on the request tables.
Spec == Init /\ [][Next]_vars

NextConcurrent ==
  \/ \E p \in Procs, r \in LifecycleRequests : Interleaved(createCaseRequest(p, r, TRUE))
  \/ \E p \in Procs : Interleaved(createCaseRequest_insert(p, TRUE))
  \/ \E p \in Procs, id \in RequestIds, s \in RequestedStatuses, f \in LifecycleFeedbacks :
       Interleaved(updateCaseRequest(p, id, s, f, TRUE))
  \/ \E p \in Procs : Interleaved(updateCaseRequest_update(p, TRUE))
  \/ \E p \in Procs, id \in RequestIds : Interleaved(deleteCaseRequest(p, id, TRUE))
  \/ \E p \in Procs, s \in SuppliedStatuses :
       Interleaved(createExtensionRequest(p, [userId |-> 1, status |-> s], TRUE))
  \/ \E p \in Procs, id \in RequestIds, s \in RequestedStatuses, f \in LifecycleFeedbacks :
       Interleaved(updateExtensionRequest(p, id, s, f, TRUE))
  \/ \E p \in Procs : Interleaved(updateExtensionRequest_update(p, TRUE))
  \/ \E p \in Procs, id \in RequestIds : Interleaved(deleteExtensionRequest(p, id, TRUE))
  \/ Interleaved(Tick)

\* The same calls issued by two callers, their queries interleaved.
SpecConcurrent == Init /\ [][NextConcurrent]_vars

\* Resubmissions: an original and its resubmissions, with varied payloads.
DiffRows == MaxRows + 1
DiffRowsBounded == RequestsCreated' <= DiffRows
Resubmitting(A) == A /\ Sequential /\ DiffRowsBounded

NextDiff ==
  \/ \E r \in DiffRequests : Resubmitting(createCaseRequest("c1", r, TRUE))
  \/ Resubmitting(createCaseRequest_insert("c1", TRUE))
  \/ \E id \in 1..DiffRows : Resubmitting(deleteCaseRequest("c1", id, TRUE))

SpecDiff == Init /\ [][NextDiff]_vars

\* Inputs of the visibility specification: requests of either owner, never a
\* resubmission.
VisibilityRequests == {CaseRequestInput(BasePayload, u, NoId) : u \in UserIds}

\* Create, hide, archive and delete calls issued by two callers, their queries
\* interleaved; case requests of either owner, extension requests of user 1.
NextVisibility ==
  \/ \E p \in Procs, r \in VisibilityRequests : Interleaved(createCaseRequest(p, r, TRUE))
  \/ \E p \in Procs :
       Interleaved(createExtensionRequest(p, [userId |-> 1, status |-> "submitted"], TRUE))
  \/ \E p \in Procs, id \in RequestIds, u \in UserIds :
       Interleaved(hideUserCaseRequest(p, id, u, TRUE))
  \/ \E p \in Procs : Interleaved(hideUserCaseRequest_update(p, TRUE))
  \/ \E p \in Procs, id \in RequestIds, u \in UserIds :
       Interleaved(hideUserExtensionRequest(p, id, u, TRUE))
  \/ \E p \in Procs : Interleaved(hideUserExtensionRequest_update(p, TRUE))
  \/ \E p \in Procs, id \in RequestIds : Interleaved(archiveCaseRequest(p, id, TRUE))
  \/ \E p \in Procs, id \in RequestIds : Interleaved(archiveExtensionRequest(p, id, TRUE))
  \/ \E p \in Procs, id \in RequestIds : Interleaved(deleteCaseRequest(p, id, TRUE))
  \/ \E p \in Procs, id \in RequestIds : Interleaved(deleteExtensionRequest(p, id, TRUE))

SpecVisibility == Init /\ [][NextVisibility]_vars

\* Create, updateStatus, hide and archive calls on both kinds, one at a time.
NextSoftDelete ==
  \/ OneAtATime(createCaseRequest("c1", CaseRequestInput(BasePayload, 1, NoId), TRUE))
  \/ OneAtATime(createExtensionRequest("c1", [userId |-> 1, status |-> "submitted"], TRUE))
  \/ \E id \in RequestIds, s \in RequestedStatuses :
       OneAtATime(updateCaseRequest("c1", id, s, UNDEFINED, TRUE))
  \/ OneAtATime(updateCaseRequest_update("c1", TRUE))
  \/ \E id \in RequestIds, s \in RequestedStatuses :
       OneAtATime(updateExtensionRequest("c1", id, s, UNDEFINED, TRUE))
  \/ OneAtATime(updateExtensionRequest_update("c1", TRUE))
  \/ \E id \in RequestIds : OneAtATime(hideUserCaseRequest("c1", id, 1, TRUE))
  \/ OneAtATime(hideUserCaseRequest_update("c1", TRUE))
  \/ \E id \in RequestIds : OneAtATime(hideUserExtensionRequest("c1", id, 1, TRUE))
  \/ OneAtATime(hideUserExtensionRequest_update("c1", TRUE))
  \/ \E id \in RequestIds : OneAtATime(archiveCaseRequest("c1", id, TRUE))
  \/ \E id \in RequestIds : OneAtATime(archiveExtensionRequest("c1", id, TRUE))

SpecSoftDelete == Init /\ [][NextSoftDelete]_vars

\* Create, updateStatus, hide and archive calls on case requests, first
\* submissions and resubmissions, one at a time.
NextCaseLifecycle ==
  \/ \E r \in LifecycleRequests : OneAtATime(createCaseRequest("c1", r, TRUE))
  \/ OneAtATime(createCaseRequest_insert("c1", TRUE))
  \/ \E id \in RequestIds, s \in RequestedStatuses :
       OneAtATime(updateCaseRequest("c1", id, s, UNDEFINED, TRUE))
  \/ OneAtATime(updateCaseRequest_update("c1", TRUE))
  \/ \E id \in RequestIds : OneAtATime(hideUserCaseRequest("c1", id, 1, TRUE))
  \/ OneAtATime(hideUserCaseRequest_update("c1", TRUE))
  \/ \E id \in RequestIds : OneAtATime(archiveCaseRequest("c1", id, TRUE))

SpecCaseLifecycle == Init /\ [][NextCaseLifecycle]_vars

\* Startup: the storage backend is initialized from the environment.
NextStorage ==
  \/ \E env \in Environments : initializeStorage("c1", env)
  \/ \E written \in BOOLEAN : setupGoogleCloudCredentials("c1", written)
  \/ \E clientConstructs \in BOOLEAN : initializeStorage_construct("c1", clientConstructs)

SpecStorage == Init /\ [][NextStorage]_vars

\* Registrations ask for a username that no stored user and no registration
\* in flight has.
UsernameFree(u) ==
  /\ \A id \in DOMAIN users : users[id].username # u
  /\ \A p \in Procs : pc[p] = "createUser_insert" => local[p].insertUser.username # u

\* Registrations issued by two callers, their queries interleaved.
NextUsers ==
  \/ \E p \in Procs, u \in Usernames : UsernameFree(u) /\ createUser(p, InsertUserInput(u), TRUE)
  \/ \E p \in Procs : createUser_insert(p, TRUE)
  \/ \E p \in Procs, id \in 1..MaxUsers : removeUser(p, id, TRUE)
  \/ Tick

SpecUsers == Init /\ [][NextUsers]_vars

\* Registrations and the approval workflow, one call at a time.
NextAccounts ==
  \/ \E u \in Usernames : OneAtATime(UsernameFree(u) /\ createUser("c1", InsertUserInput(u), TRUE))
  \/ OneAtATime(createUser_insert("c1", TRUE))
  \/ \E id \in 1..MaxUsers : OneAtATime(approveUser("c1", id, TRUE))
  \/ \E id \in 1..MaxUsers, f \in LifecycleFeedbacks : OneAtATime(rejectUser("c1", id, f, TRUE))
  \/ \E id \in 1..MaxUsers : OneAtATime(removeUser("c1", id, TRUE))
  \/ OneAtATime(Tick)

SpecAccounts == Init /\ [][NextAccounts]_vars

\* Every operation of the storage layer, one call at a time, on ids that are
\* stored and on ids that are not, with a store that answers or rejects each
\* query.
NextFailures ==
  \/ \E ok \in BOOLEAN :
       OneAtATime(createCaseRequest("c1", CaseRequestInput(BasePayload, 1, NoId), ok))
  \/ \E id \in RequestIds, ok \in BOOLEAN : OneAtATime(getCaseRequest("c1", id, ok))
  \/ \E ok \in BOOLEAN : OneAtATime(getCaseRequestsByUser("c1", 1, ok))
  \/ \E ok \in BOOLEAN : OneAtATime(getAllCaseRequests("c1", ok))
  \/ \E id \in RequestIds, s \in FailureStatuses, ok \in BOOLEAN :
       OneAtATime(updateCaseRequest("c1", id, s, UNDEFINED, ok))
  \/ \E ok \in BOOLEAN : OneAtATime(updateCaseRequest_update("c1", ok))
  \/ \E id \in RequestIds, ok \in BOOLEAN : OneAtATime(hideUserCaseRequest("c1", id, 1, ok))
  \/ \E ok \in BOOLEAN : OneAtATime(hideUserCaseRequest_update("c1", ok))
  \/ \E id \in RequestIds, ok \in BOOLEAN : OneAtATime(archiveCaseRequest("c1", id, ok))
  \/ \E id \in RequestIds, ok \in BOOLEAN : OneAtATime(deleteCaseRequest("c1", id, ok))
  \/ \E ok \in BOOLEAN :
       OneAtATime(createExtensionRequest("c1", [userId |-> 1, status |-> "submitted"], ok))
  \/ \E id \in RequestIds, ok \in BOOLEAN : OneAtATime(getExtensionRequest("c1", id, ok))
  \/ \E ok \in BOOLEAN : OneAtATime(getExtensionRequestsByUser("c1", 1, ok))
  \/ \E ok \in BOOLEAN : OneAtATime(getAllExtensionRequests("c1", ok))
  \/ \E id \in RequestIds, s \in FailureStatuses, ok \in BOOLEAN :
       OneAtATime(updateExtensionRequest("c1", id, s, UNDEFINED, ok))
  \/ \E ok \in BOOLEAN : OneAtATime(updateExtensionRequest_update("c1", ok))
  \/ \E id \in RequestIds, ok \in BOOLEAN :
       OneAtATime(hideUserExtensionRequest("c1", id, 1, ok))
  \/ \E ok \in BOOLEAN : OneAtATime(hideUserExtensionRequest_update("c1", ok))
  \/ \E id \in RequestIds, ok \in BOOLEAN : OneAtATime(archiveExtensionRequest("c1", id, ok))
  \/ \E id \in RequestIds, ok \in BOOLEAN : OneAtATime(deleteExtensionRequest("c1", id, ok))
  \/ \E u \in Usernames, ok \in BOOLEAN :
       OneAtATime(UsernameFree(u) /\ createUser("c1", InsertUserInput(u), ok))
  \/ \E ok \in BOOLEAN : OneAtATime(createUser_insert("c1", ok))
  \/ \E id \in 1..MaxUsers, ok \in BOOLEAN : OneAtATime(getUser("c1", id, ok))
  \/ \E u \in Usernames, ok \in BOOLEAN : OneAtATime(getUserByUsername("c1", u, ok))
  \/ \E u \in Usernames, ok \in BOOLEAN :
       OneAtATime(getUserByEmail("c1", InsertUserInput(u).email, ok))
  \/ \E ok \in BOOLEAN : OneAtATime(getPendingUsers("c1", ok))
  \/ \E ok \in BOOLEAN : OneAtATime(getApprovedUsers("c1", ok))
  \/ \E id \in 1..MaxUsers, ok \in BOOLEAN : OneAtATime(approveUser("c1", id, ok))
  \/ \E id \in 1..MaxUsers, ok \in BOOLEAN : OneAtATime(rejectUser("c1", id, "fb", ok))
  \/ \E id \in 1..MaxUsers, ok \in BOOLEAN : OneAtATime(removeUser("c1", id, ok))

SpecFailures == Init /\ [][NextFailures]_vars

\* ------------------------------------------------------------------ claims
Kinds == {"case", "extension"}
Rows(k) == IF k = "case" THEN caseRequests ELSE extensionRequests
UpdateOp(k) == IF k = "case" THEN "updateCaseRequest" ELSE "updateExtensionRequest"
UpdateWritePc(k) ==
  IF k = "case" THEN "updateCaseRequest_update" ELSE "updateExtensionRequest_update"
AllIdle == \A p \in Procs : pc[p] = "idle"

\* The transition table as the specification states it: <<from, to>> pairs.
StatedTransitions(k) ==
  {<<"submitted", "pending">>, <<"submitted", "rejected">>,
   <<"pending", "complete">>, <<"pending", "rejected">>}
    \cup (IF k = "case"
          THEN {<<"resubmitted", "pending">>, <<"resubmitted", "rejected">>}
          ELSE {})
TerminalStatuses == {"rejected", "complete"}

\* An updateStatus call of kind k on a stored row ends, in this step, at its
\* validation: the step starts with no call in flight and returns from the call.
UpdateEndsAtValidation(k) ==
  /\ AllIdle
  /\ ret'.op = UpdateOp(k)
  /\ ret'.id \in DOMAIN Rows(k)

\* C1: an updateStatus call on a stored request whose (current, requested) pair
\* is not in the kind's transition table fails with the error "Invalid status
\* transition from <current> to <requested>", and leaves the row unchanged.
C1_DeniedTransitionFailsWithInvalidTransition ==
  [][\A k \in Kinds :
       (/\ UpdateEndsAtValidation(k)
        /\ <<Rows(k)[ret'.id].status, ret'.status>> \notin StatedTransitions(k))
       => /\ ret'.error = InvalidTransition(Rows(k)[ret'.id].status, ret'.status)
          /\ Rows(k)' = Rows(k)]_vars

\* C2: an updateStatus call on a stored request passes validation exactly for
\* the pairs of the stated table, a call that passed sets the stored status to
\* the requested one and returns, and the stored status of a row changes along
\* no other pair.
C2_UpdateFollowsStatedTable ==
  [][\A k \in Kinds :
       /\ \A p \in Procs :
            (pc[p] = "idle" /\ pc'[p] = UpdateWritePc(k))
            => /\ local'[p].id \in DOMAIN Rows(k)
               /\ <<Rows(k)[local'[p].id].status, local'[p].status>> \in StatedTransitions(k)
       /\ UpdateEndsAtValidation(k)
            => /\ ret'.error # <<>>
               /\ <<Rows(k)[ret'.id].status, ret'.status>> \notin StatedTransitions(k)
               /\ Rows(k)' = Rows(k)
       /\ \A p \in Procs :
            (pc[p] = UpdateWritePc(k) /\ pc'[p] = "idle")
            => /\ ret' = Returned(UpdateOp(k), local[p].id, local[p].status)
               /\ local[p].id \in DOMAIN Rows(k)'
               /\ Rows(k)'[local[p].id].status = local[p].status
       /\ \A id \in DOMAIN Rows(k) \cap DOMAIN Rows(k)' :
            Rows(k)'[id].status # Rows(k)[id].status
            => <<Rows(k)[id].status, Rows(k)'[id].status>> \in StatedTransitions(k)]_vars

\* A case request went resubmitted -> pending -> complete by two returned calls.
C2_Witness ==
  /\ ret = Returned("updateCaseRequest", 1, "complete")
  /\ 1 \in DOMAIN caseRequests
  /\ caseRequests[1].isResubmission
  /\ caseRequests[1].status = "complete"

\* C3: once the stored status of a request is rejected or complete, no step of
\* a run of sequentially executed calls changes it.
C3_TerminalStatusAbsorbing ==
  [][\A k \in Kinds : \A id \in DOMAIN Rows(k) \cap DOMAIN Rows(k)' :
       Rows(k)[id].status \in TerminalStatuses
       => Rows(k)'[id].status = Rows(k)[id].status]_vars

\* submitted -> pending -> complete, and then updateStatus(1, "pending") failed.
C3_Witness ==
  /\ ret = Threw("updateCaseRequest", 1, "pending",
                 InvalidTransition("complete", "pending"))
  /\ 1 \in DOMAIN caseRequests
  /\ caseRequests[1].status = "complete"
  /\ ~caseRequests[1].isResubmission
  /\ caseRequests[1].receivedAt # NoDate
  /\ caseRequests[1].completedAt # NoDate

\* C4: under interleaved calls, every change of a row's stored status follows
\* the transition table from the status stored immediately before the write.
C4_ConcurrentUpdatesSerialized ==
  [][\A k \in Kinds : \A id \in DOMAIN Rows(k) \cap DOMAIN Rows(k)' :
       Rows(k)'[id].status # Rows(k)[id].status
       => <<Rows(k)[id].status, Rows(k)'[id].status>> \in StatedTransitions(k)]_vars

\* C5: a returned updateStatus call stamps updatedAt; to pending it sets
\* receivedAt and leaves completedAt (so a null completedAt stays null); to
\* complete it sets completedAt and leaves receivedAt; to rejected it leaves both.
C5_TimestampStamping ==
  [][\A k \in Kinds :
       (ret'.op = UpdateOp(k) /\ ret'.error = <<>>)
       => LET old == Rows(k)[ret'.id]
              new == Rows(k)'[ret'.id]
          IN /\ new.updatedAt = Date(clock)
             /\ ret'.status = "pending"
                  => /\ new.receivedAt = Date(clock)
                     /\ new.completedAt = old.completedAt
             /\ ret'.status = "complete"
                  => /\ new.completedAt = Date(clock)
                     /\ new.receivedAt = old.receivedAt
             /\ ret'.status = "rejected"
                  => /\ new.receivedAt = old.receivedAt
                     /\ new.completedAt = old.completedAt]_vars

\* An extension request received at one time and completed at a later one.
C5_Witness ==
  /\ ret = Returned("updateExtensionRequest", 1, "complete")
  /\ 1 \in DOMAIN extensionRequests
  /\ extensionRequests[1].receivedAt # NoDate
  /\ extensionRequests[1].completedAt # NoDate
  /\ extensionRequests[1].completedAt # extensionRequests[1].receivedAt
  /\ extensionRequests[1].updatedAt = extensionRequests[1].completedAt

CaseStatusEnum == {"submitted", "resubmitted", "pending", "rejected", "complete"}
ExtensionStatusEnum == {"submitted", "pending", "rejected", "complete"}

\* C6: the stored status of every case request and of every extension request
\* is a member of the status enum of its kind.
C6_StatusInEnum ==
  /\ \A id \in DOMAIN caseRequests : caseRequests[id].status \in CaseStatusEnum
  /\ \A id \in DOMAIN extensionRequests :
       extensionRequests[id].status \in ExtensionStatusEnum

\* C7: a returned create call stored a row that has status resubmitted and
\* isResubmission true exactly when an originalRequestId was supplied, status
\* submitted and isResubmission false otherwise, and createdAt = updatedAt.
C7_CreateSetsStatus ==
  /\ ret.op = "createCaseRequest" /\ ret.id \in DOMAIN caseRequests
       => LET row == caseRequests[ret.id]
          IN /\ row.originalRequestId # NoId
                  => row.status = "resubmitted" /\ row.isResubmission
             /\ row.originalRequestId = NoId
                  => row.status = "submitted" /\ ~row.isResubmission
             /\ row.createdAt = row.updatedAt
  /\ ret.op = "createExtensionRequest" /\ ret.id \in DOMAIN extensionRequests
       => LET row == extensionRequests[ret.id]
          IN /\ row.status = "submitted"
             /\ row.createdAt = row.updatedAt

TrackedFields ==
  {"sadNumber", "sadDate", "declarantCompany", "declarantName",
   "documentHolder", "documentHolderPhone", "reason", "corrections"}

\* The stored resubmissions whose original is stored and was created earlier.
ResubmissionsWithOriginal ==
  {id \in DOMAIN caseRequests :
     /\ caseRequests[id].originalRequestId # NoId
     /\ caseRequests[id].originalRequestId[1] \in DOMAIN caseRequests
     /\ caseRequests[id].originalRequestId[1] < id}
OriginalOf(id) == caseRequests[caseRequests[id].originalRequestId[1]]
Differing(id) == {f \in TrackedFields : caseRequests[id][f] # OriginalOf(id)[f]}

\* C8: changes is non-null only for a resubmission with a tracked field that
\* differs from the original; a resubmission whose tracked fields all equal
\* the original's (absent in both included) has changes = null.
C8_ChangesNonNullOnlyWhenDiffering ==
  /\ \A id \in DOMAIN caseRequests :
       caseRequests[id].changes # NULL => caseRequests[id].isResubmission
  /\ \A id \in ResubmissionsWithOriginal :
       caseRequests[id].changes # NULL <=> Differing(id) # {}

\* The text of a stored value; an absent value is stored as NULL, and its text
\* is "null" or "undefined".
TextOf(f, v) ==
  IF f = "corrections"
  THEN IF v = CorrNull THEN {"null", UNDEFINED} ELSE {JSON_stringify(v)}
  ELSE IF v = NULL THEN {"null", "undefined"} ELSE {v}
ChangesOf(id) == IF caseRequests[id].changes = NULL THEN <<>> ELSE caseRequests[id].changes

\* C9: the changes of a resubmission whose original exists hold exactly one
\* entry for each tracked field that differs, with the original's and the
\* resubmission's value as text, and no entry for a field that is equal.
C9_ChangesListDifferingFields ==
  \A id \in ResubmissionsWithOriginal :
    LET ch == ChangesOf(id)
    IN /\ {ch[i].field : i \in 1..Len(ch)} = Differing(id)
       /\ Len(ch) = Cardinality(Differing(id))
       /\ \A i \in 1..Len(ch) :
            /\ ch[i].from \in TextOf(ch[i].field, OriginalOf(id)[ch[i].field])
            /\ ch[i].to \in TextOf(ch[i].field, caseRequests[id][ch[i].field])

\* C10: at most one stored user was made admin by createUser.
C10_AtMostOneAdmin ==
  Cardinality({id \in DOMAIN users : users[id].isAdmin}) <= 1

\* C11: under sequentially executed registrations, the user that createUser
\* inserts is admin and approved exactly when no user row is stored as the
\* call runs, and is neither otherwise.
C11_FirstUserIsAdmin ==
  [][\A p \in Procs :
       (pc[p] = "createUser_insert" /\ pc'[p] = "idle" /\ ret'.error = <<>>)
       => /\ ret'.id \in DOMAIN users' \ DOMAIN users
          /\ users'[ret'.id].isAdmin = (DOMAIN users = {})
          /\ users'[ret'.id].isApproved = (DOMAIN users = {})]_vars

\* The first registrant is admin and approved, the second, registered while
\* the first exists, is neither.
C11_Witness ==
  /\ ret = Returned("createUser", 2, "")
  /\ DOMAIN users = {1, 2}
  /\ users[1].isAdmin /\ users[1].isApproved
  /\ ~users[2].isAdmin /\ ~users[2].isApproved

\* The user ids in a hiddenBy list.
HiddenSet(row) == {row.hiddenBy[i] : i \in 1..Len(row.hiddenBy)}

\* C12: under every interleaving of calls, a user id written into hiddenBy of
\* a stored request is in hiddenBy in every later state in which the request
\* is stored.
C12_HiddenByOnlyGrows ==
  [][\A k \in Kinds : \A id \in DOMAIN Rows(k) \cap DOMAIN Rows(k)' :
       HiddenSet(Rows(k)[id]) \subseteq HiddenSet(Rows(k)'[id])]_vars

\* The requests of kind k that getByUser(u) and getAll() return.
ByUser(k, u) == IF k = "case" THEN CaseRequestsByUser(u) ELSE ExtensionRequestsByUser(u)
All(k) == IF k = "case" THEN AllCaseRequests ELSE AllExtensionRequests
HideWritePc(k) ==
  IF k = "case" THEN "hideUserCaseRequest_update" ELSE "hideUserExtensionRequest_update"

\* C13: getByUser(u) returns no request that u has hidden, and neither
\* getByUser(u), for any user u, nor getAll() returns an archived request,
\* whatever its status.  (A hide that returned has written u into hiddenBy,
\* an archive that returned has set isArchived.)
C13_HiddenAndArchivedNotReturned ==
  \A k \in Kinds : \A id \in DOMAIN Rows(k) :
    /\ \A u \in HiddenSet(Rows(k)[id]) : id \notin ByUser(k, u)
    /\ Rows(k)[id].isArchived
         => /\ id \notin All(k)
            /\ \A u \in UserIds : id \notin ByUser(k, u)

\* C14: the write of hide(id, userId) leaves getAll() and getByUser(v), for
\* every user v other than userId, as they were, and changes no field of any
\* request but hiddenBy of the request it names; its read changes nothing.
C14_HideChangesOnlyHiddenBy ==
  [][\A k \in Kinds : \A p \in Procs :
       /\ (pc[p] = "idle" /\ pc'[p] = HideWritePc(k))
            => UNCHANGED <<requestVars, userVars>>
       /\ (pc[p] = HideWritePc(k) /\ pc'[p] = "idle")
            => /\ All(k)' = All(k)
               /\ \A v \in UserIds \ {local[p].userId} : ByUser(k, v)' = ByUser(k, v)
               /\ DOMAIN Rows(k)' = DOMAIN Rows(k)
               /\ \A id \in DOMAIN Rows(k) :
                    /\ Rows(k)'[id] = [Rows(k)[id] EXCEPT !.hiddenBy = Rows(k)'[id].hiddenBy]
                    /\ id # local[p].id => Rows(k)'[id] = Rows(k)[id]
               /\ \A j \in Kinds \ {k} : Rows(j)' = Rows(j)
               /\ UNCHANGED userVars]_vars

\* User 2 has hidden the case request of user 1: the hide call has returned,
\* and the request is still in the administrative view.
C14_Witness ==
  /\ ret = Returned("hideUserCaseRequest", 1, "")
  /\ 1 \in DOMAIN caseRequests
  /\ caseRequests[1].userId = 1
  /\ caseRequests[1].hiddenBy = <<2>>
  /\ 1 \in AllCaseRequests

ArchiveOp(k) == IF k = "case" THEN "archiveCaseRequest" ELSE "archiveExtensionRequest"

\* C15: an archive call on a stored request sets isArchived and changes
\* nothing else of it, whatever its status; and no step of a run of create,
\* updateStatus, hide and archive calls takes isArchived of a stored request
\* from true to false.
C15_ArchivedIsOneWay ==
  [][\A k \in Kinds :
       /\ \A id \in DOMAIN Rows(k) \cap DOMAIN Rows(k)' :
            Rows(k)[id].isArchived => Rows(k)'[id].isArchived
       /\ (ret'.op = ArchiveOp(k) /\ ret'.id \in DOMAIN Rows(k))
            => /\ ret'.error = <<>>
               /\ ret'.id \in DOMAIN Rows(k)'
               /\ Rows(k)'[ret'.id] = [Rows(k)[ret'.id] EXCEPT !.isArchived = TRUE]]_vars

\* A case request archived while pending, archived a second time, hidden by
\* its owner and then completed: it is still archived.
C15_Witness ==
  /\ ret = Returned("updateCaseRequest", 1, "complete")
  /\ 1 \in DOMAIN caseRequests
  /\ caseRequests[1].status = "complete"
  /\ caseRequests[1].hiddenBy = <<1>>
  /\ caseRequests[1].isArchived

\* C16: every stored case request with a non-null originalRequestId names a
\* stored case request that was created earlier (ids are handed out in order
\* of creation).
C16_OriginalExists ==
  \A id \in DOMAIN caseRequests :
    caseRequests[id].originalRequestId # NoId
    => /\ caseRequests[id].originalRequestId[1] \in DOMAIN caseRequests
       /\ caseRequests[id].originalRequestId[1] < id

HideOp(k) == IF k = "case" THEN "hideUserCaseRequest" ELSE "hideUserExtensionRequest"
DeleteOp(k) == IF k = "case" THEN "deleteCaseRequest" ELSE "deleteExtensionRequest"
LookupOp(k) == IF k = "case" THEN "getCaseRequest" ELSE "getExtensionRequest"

\* This step is a whole call of operation op that names an id outside ids.
CallOnMissingId(ops, ids) ==
  /\ AllIdle
  /\ ret'.op \in ops
  /\ ret'.id \notin ids

\* C17: updateStatus, hide, archive and delete on a request id that is not
\* stored, and approve and reject on a user id that is not stored, fail with
\* an error and leave the store unchanged; getUser, getCaseRequest and
\* getExtensionRequest on an id that is not stored return undefined.
C17_MissingIdFailsOrIsAbsent ==
  [][/\ \A k \in Kinds :
          /\ CallOnMissingId({UpdateOp(k), HideOp(k), ArchiveOp(k), DeleteOp(k)},
                             DOMAIN Rows(k))
               => ret'.error # <<>> /\ UNCHANGED <<requestVars, userVars>>
          /\ CallOnMissingId({LookupOp(k)}, DOMAIN Rows(k))
               => ret'.error = <<>> /\ ret'.value = <<>>
     /\ CallOnMissingId({"approveUser", "rejectUser"}, DOMAIN users)
          => ret'.error # <<>> /\ UNCHANGED <<requestVars, userVars>>
     /\ CallOnMissingId({"getUser"}, DOMAIN users)
          => ret'.error = <<>> /\ ret'.value = <<>>]_vars

ReadPathOps ==
  {"getUser", "getUserByUsername", "getUserByEmail", "getCaseRequest",
   "getExtensionRequest", "getCaseRequestsByUser", "getExtensionRequestsByUser",
   "getAllCaseRequests", "getAllExtensionRequests", "getPendingUsers",
   "getApprovedUsers"}
WritePathOps ==
  {"createCaseRequest", "createExtensionRequest", "updateCaseRequest",
   "updateExtensionRequest", "hideUserCaseRequest", "hideUserExtensionRequest",
   "archiveCaseRequest", "archiveExtensionRequest", "deleteCaseRequest",
   "deleteExtensionRequest", "createUser", "approveUser", "rejectUser"}

\* C18: when the store rejects the query of a call, a read-path operation
\* returns undefined or the empty list and no error, and a write-path
\* operation ends with an error.
C18_ReadsSwallowWritesPropagate ==
  [][ret'.storeFailed
       => /\ ret'.op \in ReadPathOps => ret'.error = <<>> /\ ret'.value = <<>>
          /\ ret'.op \in WritePathOps => ret'.error # <<>>]_vars

\* An initialization that p runs, or has just ended, with the local-only flag.
LocalOnly(l) == l.op = "initializeStorage" /\ l.env.USE_LOCAL_STORAGE = "true"

\* C19: with USE_LOCAL_STORAGE = "true", whatever the credential variables
\* hold, initializeStorage never calls setupGoogleCloudCredentials, and it
\* returns the local implementation.
C19_LocalFlagGivesLocal ==
  [][\A p \in Procs :
       /\ LocalOnly(local'[p])
            => /\ pc'[p] # "setupGoogleCloudCredentials"
               /\ local'[p].credentials = "not attempted"
               /\ local'[p].env.GOOGLE_CLOUD_CREDENTIALS = UNDEFINED
       /\ (LocalOnly(local[p]) /\ pc'[p] = "idle")
            => ret'.op = "initializeStorage" /\ ret'.error = <<>> /\ ret'.value = <<"local">>]_vars

\* An initialization of p with the local-only flag unset.
NotLocalOnly(l) == l.op = "initializeStorage" /\ l.env.USE_LOCAL_STORAGE # "true"

\* C20: with the local-only flag unset, when setupGoogleCloudCredentials
\* fails: with FALLBACK_TO_LOCAL = "true" initializeStorage returns the local
\* implementation without error, otherwise it throws the credential error
\* and returns nothing; when it succeeds, the cloud implementation is
\* constructed.
C20_FallbackOnCredentialFailure ==
  [][\A p \in Procs :
       /\ (NotLocalOnly(local[p]) /\ pc[p] = "setupGoogleCloudCredentials")
            => /\ pc'[p] = "idle"
                    => /\ local[p].env.FALLBACK_TO_LOCAL # "true"
                       /\ ret'.error \in {CredentialsNotSet, WriteFailed}
                       /\ ret'.value = <<>>
               /\ pc'[p] = "initializeStorage_construct"
                    => \/ local'[p].credentials = "materialized"
                       \/ /\ local'[p].credentials = "failed"
                          /\ local[p].env.FALLBACK_TO_LOCAL = "true"
               /\ pc'[p] \in {"idle", "initializeStorage_construct"}
       /\ (NotLocalOnly(local[p]) /\ pc[p] = "initializeStorage_construct")
            => /\ pc'[p] = "idle" /\ ret'.op = "initializeStorage" /\ ret'.error = <<>>
               /\ local[p].credentials = "failed" => ret'.value = <<"local">>
               /\ local[p].credentials = "materialized"
                    => ret'.value \in {<<"cloud">>, <<"local">>}]_vars

\* C21: in every state of a run of sequentially executed create, updateStatus,
\* hide and archive calls, every case request has completedAt set exactly
\* when its status is complete, and has receivedAt set whenever its status is
\* pending or complete.
C21_TimestampsMatchStatus ==
  \A id \in DOMAIN caseRequests :
    LET row == caseRequests[id]
    IN /\ (row.completedAt # NoDate) <=> (row.status = "complete")
       /\ row.status \in {"pending", "complete"} => row.receivedAt # NoDate

\* A resubmission that was received and then completed, hidden and archived
\* on the way.
C21_Witness ==
  /\ ret = Returned("updateCaseRequest", 1, "complete")
  /\ 1 \in DOMAIN caseRequests
  /\ caseRequests[1].isResubmission
  /\ caseRequests[1].status = "complete"
  /\ caseRequests[1].isArchived
  /\ caseRequests[1].hiddenBy # <<>>
  /\ caseRequests[1].receivedAt # NoDate
  /\ caseRequests[1].completedAt # NoDate

====
